---- MODULE Spec2Model ----
(***************************************************************************)
(* Model of src/script.js: the click handler of the forecast button, the   *)
(* three API helpers and the UI update functions.                          *)
(*                                                                         *)
(* A text is a sequence of string tokens: a template literal               *)
(* `Forecast for ${city}` is <<"Forecast for ", city>>, a number put into  *)
(* a template is ToString of it, and the empty string is <<>>.             *)
(* Each action is one run-to-completion block of JavaScript: an event      *)
(* handler or the completion of an awaited operation together with every   *)
(* continuation the microtask queue runs before the next event.            *)
(***************************************************************************)
EXTENDS Integers, Sequences, FiniteSets, TLC

VARIABLES ui, runs, geolocation

vars == <<ui, runs, geolocation>>

\* Number of accepted clicks explored.
MaxRuns == 2

-----------------------------------------------------------------------------
(* UI update functions (script.js 19-57), on the record of DOM fields.     *)

\* showLoading without line 22: the results panel is left as it is.
showLoading_keepResults(u, message) ==
    [u EXCEPT !.loadingMessage = message,
              !.loadingHidden = FALSE,
              !.errorHidden = TRUE,
              !.btnDisabled = TRUE]

\* showLoading without line 24: the button is left enabled.
showLoading_noDisable(u, message) ==
    [u EXCEPT !.loadingMessage = message,
              !.loadingHidden = FALSE,
              !.resultsHidden = TRUE,
              !.errorHidden = TRUE]

showLoading(u, message) ==
    [u EXCEPT !.loadingMessage = message,
              !.loadingHidden = FALSE,
              !.resultsHidden = TRUE,
              !.errorHidden = TRUE,
              !.btnDisabled = TRUE]

\* hideLoading without line 33: the button stays disabled.
hideLoading_noEnable(u) ==
    [u EXCEPT !.loadingHidden = TRUE]

hideLoading(u) ==
    [u EXCEPT !.loadingHidden = TRUE,
              !.btnDisabled = FALSE]

\* showError without the hideLoading call of line 44.
showError_noHide(u, message) ==
    [u EXCEPT !.errorMessage = message,
              !.errorHidden = FALSE]

showError(u, message) ==
    hideLoading([u EXCEPT !.errorMessage = message,
                          !.errorHidden = FALSE])

\* A property read off an object that lacks it is undefined, which a
\* template literal renders as the text "undefined".
Field(obj, f) == IF f \in DOMAIN obj THEN obj[f] ELSE "undefined"

\* textContent = value: undefined is converted to null, which sets the
\* empty text.
TextContent(obj, f) == IF f \in DOMAIN obj THEN <<obj[f]>> ELSE <<>>

\* updateUI(data): lines 52-53 always run; lines 54-55 read properties of
\* data.fragrance and throw a TypeError when it is null, in which case
\* line 56 is not reached.  Result: the new UI and whether it threw.
updateUI(u, data) ==
    LET u1 == [u EXCEPT
                 !.locationDisplay = <<"Forecast for ", data.city>>,
                 !.weatherDisplay = <<data.weather.description, ", ",
                                      ToString(data.weather.temperature), "°C">>]
    IN  IF data.fragrance.isNull
        THEN [ui |-> u1, threw |-> TRUE,
              message |-> <<"Cannot read properties of null (reading 'scents')">>]
        ELSE [ui |-> [u1 EXCEPT
                        !.fragranceRecommendation =
                            TextContent(data.fragrance.obj, "scents"),
                        !.fragranceReason =
                            <<"Mood: ", Field(data.fragrance.obj, "mood"), ". ",
                              Field(data.fragrance.obj, "reason")>>,
                        !.resultsHidden = FALSE],
              threw |-> FALSE, message |-> <<>>]

-----------------------------------------------------------------------------
(* Helper functions (script.js 211-243).                                   *)

descriptions ==
    [c \in {0,1,2,3,45,48,51,53,55,56,57,61,63,65,66,67,71,73,75,77,
            80,81,82,85,86,95,96,99} |->
       CASE c = 0 -> "Clear sky"
         [] c = 1 -> "Mainly clear"
         [] c = 2 -> "Partly cloudy"
         [] c = 3 -> "Overcast"
         [] c = 45 -> "Fog"
         [] c = 48 -> "Depositing rime fog"
         [] c = 51 -> "Light drizzle"
         [] c = 53 -> "Moderate drizzle"
         [] c = 55 -> "Dense drizzle"
         [] c = 56 -> "Light freezing drizzle"
         [] c = 57 -> "Dense freezing drizzle"
         [] c = 61 -> "Slight rain"
         [] c = 63 -> "Moderate rain"
         [] c = 65 -> "Heavy rain"
         [] c = 66 -> "Light freezing rain"
         [] c = 67 -> "Heavy freezing rain"
         [] c = 71 -> "Slight snow fall"
         [] c = 73 -> "Moderate snow fall"
         [] c = 75 -> "Heavy snow fall"
         [] c = 77 -> "Snow grains"
         [] c = 80 -> "Slight rain showers"
         [] c = 81 -> "Moderate rain showers"
         [] c = 82 -> "Violent rain showers"
         [] c = 85 -> "Slight snow showers"
         [] c = 86 -> "Heavy snow showers"
         [] c = 95 -> "Thunderstorm"
         [] c = 96 -> "Thunderstorm with slight hail"
         [] c = 99 -> "Thunderstorm with heavy hail"]

\* The lookup guarded by the truthiness of the code: code 0 is taken for
\* a missing code.
getWeatherDescription_falsyZero(code) ==
    IF code # 0 /\ code \in DOMAIN descriptions
    THEN descriptions[code]
    ELSE "Unknown weather"

\* descriptions[code] || "Unknown weather"
getWeatherDescription(code) ==
    IF code \in DOMAIN descriptions /\ descriptions[code] # ""
    THEN descriptions[code]
    ELSE "Unknown weather"

\* Math.floor in the place of Math.round.
MathRound_floor(tenths) == tenths \div 10

\* Math.round on a value given in tenths: the nearest integer, a half
\* rounding towards plus infinity.
MathRound(tenths) == (tenths + 5) \div 10

\* response.ok of the Fetch API: the status is in the range 200-299.
ResponseOk(status) == status \in 200..299

-----------------------------------------------------------------------------
(* API logic (script.js 68-152).  Each helper is given the way its fetch   *)
(* settled and returns how its promise settles: fulfilled with a value or  *)
(* rejected with an error whose message text is given.                     *)

NoWeather == [temperature |-> 0, description |-> ""]
NoFragrance == [isNull |-> TRUE, obj |-> <<>>]

\* getWeatherData: resp.rejected is a fetch that rejects (network error)
\* with resp.message; otherwise resp.status and, when resp.hasCurrent, the
\* body's current_weather with temperature (in tenths) and weathercode.
getWeatherData(resp) ==
    IF resp.rejected
    THEN [ok |-> FALSE, value |-> NoWeather, message |-> resp.message]
    ELSE IF ~ResponseOk(resp.status)
    THEN [ok |-> FALSE, value |-> NoWeather,
          message |-> <<"Could not fetch weather data.">>]
    ELSE IF ~resp.hasCurrent
    THEN [ok |-> FALSE, value |-> NoWeather,
          message |-> <<"Cannot read properties of undefined (reading 'temperature')">>]
    ELSE [ok |-> TRUE,
          value |-> [temperature |-> MathRound(resp.temperature),
                     description |-> getWeatherDescription(resp.weathercode)],
          message |-> <<>>]

\* getCityName: resp.address is the body's address object (a function from
\* some of "city", "town" to strings) when resp.hasAddress.
getCityName(resp) ==
    IF resp.rejected
    THEN [ok |-> FALSE, value |-> "", message |-> resp.message]
    ELSE IF ~ResponseOk(resp.status)
    THEN [ok |-> TRUE, value |-> "your location", message |-> <<>>]
    ELSE IF ~resp.hasAddress
    THEN [ok |-> FALSE, value |-> "",
          message |-> <<"Cannot read properties of undefined (reading 'city')">>]
    ELSE [ok |-> TRUE,
          value |-> IF "city" \in DOMAIN resp.address /\ resp.address["city"] # ""
                    THEN resp.address["city"]
                    ELSE IF "town" \in DOMAIN resp.address /\ resp.address["town"] # ""
                    THEN resp.address["town"]
                    ELSE "your location",
          message |-> <<>>]

\* The texts a candidate may carry, and JSON.parse of each of them.
TextFull == "{\"mood\":\"Cozy\",\"atmosphere\":\"Rainy afternoon\",\"scents\":\"Amber & Vanilla\",\"reason\":\"Warm scents suit rain.\"}"
TextNoAtmosphere == "{\"mood\":\"Cozy\",\"scents\":\"Amber & Vanilla\",\"reason\":\"Warm scents suit rain.\"}"
TextOnlyMood == "{\"mood\":\"Cozy\"}"
TextEmptyObject == "{}"
TextNull == "null"
TextNotJson == "Sure! Here is"

JSONparse(text) ==
    CASE text = TextFull ->
           [ok |-> TRUE, message |-> <<>>,
            value |-> [isNull |-> FALSE,
                       obj |-> [mood |-> "Cozy", atmosphere |-> "Rainy afternoon",
                                scents |-> "Amber & Vanilla",
                                reason |-> "Warm scents suit rain."]]]
      [] text = TextNoAtmosphere ->
           [ok |-> TRUE, message |-> <<>>,
            value |-> [isNull |-> FALSE,
                       obj |-> [mood |-> "Cozy", scents |-> "Amber & Vanilla",
                                reason |-> "Warm scents suit rain."]]]
      [] text = TextOnlyMood ->
           [ok |-> TRUE, message |-> <<>>,
            value |-> [isNull |-> FALSE, obj |-> [mood |-> "Cozy"]]]
      [] text = TextEmptyObject ->
           [ok |-> TRUE, message |-> <<>>,
            value |-> [isNull |-> FALSE, obj |-> <<>>]]
      [] text = TextNull ->
           [ok |-> TRUE, message |-> <<>>, value |-> NoFragrance]
      [] OTHER ->
           [ok |-> FALSE, value |-> NoFragrance,
            message |-> <<"Unexpected token 'S', \"", text, "\" is not valid JSON">>]

\* getFragranceFromAI with the test of line 146 reduced to
\* result.candidates: an empty list reaches candidates[0].content.
getFragranceFromAI_noLengthCheck(resp) ==
    IF resp.rejected
    THEN [ok |-> FALSE, value |-> NoFragrance, message |-> resp.message]
    ELSE IF ~ResponseOk(resp.status)
    THEN [ok |-> FALSE, value |-> NoFragrance,
          message |-> <<"AI API request failed with status ", ToString(resp.status)>>]
    ELSE IF resp.candidates = "absent"
    THEN [ok |-> FALSE, value |-> NoFragrance,
          message |-> <<"Invalid response structure from AI API.">>]
    ELSE IF resp.candidates = "empty"
    THEN [ok |-> FALSE, value |-> NoFragrance,
          message |-> <<"Cannot read properties of undefined (reading 'content')">>]
    ELSE IF resp.candidates = "malformed"
    THEN [ok |-> FALSE, value |-> NoFragrance,
          message |-> <<"Cannot read properties of undefined (reading 'parts')">>]
    ELSE JSONparse(resp.text)

\* getFragranceFromAI with the status left out of the message of line 142.
getFragranceFromAI_noStatus(resp) ==
    IF resp.rejected
    THEN [ok |-> FALSE, value |-> NoFragrance, message |-> resp.message]
    ELSE IF ~ResponseOk(resp.status)
    THEN [ok |-> FALSE, value |-> NoFragrance,
          message |-> <<"AI API request failed">>]
    ELSE IF resp.candidates \in {"absent", "empty"}
    THEN [ok |-> FALSE, value |-> NoFragrance,
          message |-> <<"Invalid response structure from AI API.">>]
    ELSE IF resp.candidates = "malformed"
    THEN [ok |-> FALSE, value |-> NoFragrance,
          message |-> <<"Cannot read properties of undefined (reading 'parts')">>]
    ELSE JSONparse(resp.text)

\* getFragranceFromAI: resp.candidates is "absent", "empty", "malformed"
\* (a first candidate without content.parts[0].text) or "text", in which
\* case resp.text is the text of the first candidate.
getFragranceFromAI(resp) ==
    IF resp.rejected
    THEN [ok |-> FALSE, value |-> NoFragrance, message |-> resp.message]
    ELSE IF ~ResponseOk(resp.status)
    THEN [ok |-> FALSE, value |-> NoFragrance,
          message |-> <<"AI API request failed with status ", ToString(resp.status)>>]
    ELSE IF resp.candidates \in {"absent", "empty"}
    THEN [ok |-> FALSE, value |-> NoFragrance,
          message |-> <<"Invalid response structure from AI API.">>]
    ELSE IF resp.candidates = "malformed"
    THEN [ok |-> FALSE, value |-> NoFragrance,
          message |-> <<"Cannot read properties of undefined (reading 'parts')">>]
    ELSE JSONparse(resp.text)

-----------------------------------------------------------------------------
(* What the environment may answer.                                        *)

\* error.message of a rejected fetch: browsers give a TypeError with a
\* text, and the catch block also provides for an empty one.
NetworkErrorMessages == {<<"Failed to fetch">>, <<>>}

ErrorStatuses == {300, 429, 500}

\* <<weathercode, temperature in tenths of a degree>>
Readings == {<<61, 123>>, <<0, 146>>, <<4, -5>>}

NoWeatherResponse ==
    [rejected |-> FALSE, message |-> <<>>, status |-> 0, hasCurrent |-> FALSE,
     temperature |-> 0, weathercode |-> 0]

WeatherResponses ==
    {[NoWeatherResponse EXCEPT !.rejected = TRUE, !.message = m] :
        m \in NetworkErrorMessages}
    \cup {[NoWeatherResponse EXCEPT !.status = s] : s \in {200, 500}}
    \cup {[NoWeatherResponse EXCEPT !.status = 200, !.hasCurrent = TRUE,
                                    !.temperature = r[2], !.weathercode = r[1]] :
        r \in Readings}

Addresses == {<<>>, [city |-> "London"], [town |-> "Ely"],
              [city |-> "", town |-> "Ely"]}

NoGeocodeResponse ==
    [rejected |-> FALSE, message |-> <<>>, status |-> 0, hasAddress |-> FALSE,
     address |-> <<>>]

GeocodeResponses ==
    {[NoGeocodeResponse EXCEPT !.rejected = TRUE, !.message = m] :
        m \in NetworkErrorMessages}
    \cup {[NoGeocodeResponse EXCEPT !.status = s] : s \in {200, 500}}
    \cup {[NoGeocodeResponse EXCEPT !.status = 200, !.hasAddress = TRUE,
                                    !.address = a] : a \in Addresses}

Texts == {TextFull, TextNoAtmosphere, TextOnlyMood, TextEmptyObject,
          TextNull, TextNotJson}

NoFragranceResponse ==
    [rejected |-> FALSE, message |-> <<>>, status |-> 0, candidates |-> "absent",
     text |-> ""]

FragranceResponses ==
    {[NoFragranceResponse EXCEPT !.rejected = TRUE, !.message = m] :
        m \in NetworkErrorMessages}
    \cup {[NoFragranceResponse EXCEPT !.status = s] : s \in ErrorStatuses}
    \cup {[NoFragranceResponse EXCEPT !.status = 200, !.candidates = c] :
        c \in {"absent", "empty", "malformed"}}
    \cup {[NoFragranceResponse EXCEPT !.status = 200, !.candidates = "text",
                                      !.text = t] : t \in Texts}

\* error.code of a GeolocationPositionError; PERMISSION_DENIED is 1.
PERMISSION_DENIED == 1
GeolocationErrorCodes == {1, 2, 3}

-----------------------------------------------------------------------------
(* Main application flow (script.js 157-201).                              *)
(*                                                                         *)
(* runs[i] is the i-th invocation of the click handler.  pc is where it    *)
(* stands: "LocatingUser" (getCurrentPosition called, no callback yet),    *)
(* "FetchingWeatherAndCity" (at the await of Promise.all),                 *)
(* "GeneratingFragrance" (at the await of getFragranceFromAI), "Done"      *)
(* (updateUI returned) or "Error" (showError called).  weatherP, cityP and *)
(* aiP are the promises of the three helpers: "none", "pending",           *)
(* "fulfilled" or "rejected".  The other fields record what the run        *)
(* received and whether it made the results panel visible.                 *)
(* When the handler is invoked again, the locals of the invocations that   *)
(* have returned are dead and are dropped (Retire); the value of a promise *)
(* that settles after Promise.all has rejected is read by nobody and is    *)
(* not kept.                                                               *)

NewRun(pc) ==
    [pc |-> pc,
     weatherP |-> "none", cityP |-> "none", aiP |-> "none",
     weather |-> NoWeather, city |-> "", fragrance |-> NoFragrance,
     weatherResp |-> NoWeatherResponse, cityResp |-> NoGeocodeResponse,
     aiResp |-> NoFragranceResponse,
     geoCode |-> 0, shown |-> FALSE]

Retire(r) ==
    [r EXCEPT !.weather = NoWeather, !.city = "", !.fragrance = NoFragrance,
              !.weatherResp = NoWeatherResponse, !.cityResp = NoGeocodeResponse,
              !.aiResp = NoFragranceResponse, !.geoCode = 0]

Retired(rs) == [k \in DOMAIN rs |-> Retire(rs[k])]

Init ==
    /\ ui = [loadingMessage |-> <<>>, loadingHidden |-> TRUE,
             resultsHidden |-> TRUE, errorHidden |-> TRUE,
             errorMessage |-> <<>>, btnDisabled |-> FALSE,
             locationDisplay |-> <<>>, weatherDisplay |-> <<>>,
             fragranceRecommendation |-> <<>>, fragranceReason |-> <<>>]
    /\ runs = <<>>
    /\ geolocation \in BOOLEAN

\* The click listener without the return of line 160: the handler goes on
\* to showLoading and getCurrentPosition.
Click_noReturn ==
    /\ ~ui.btnDisabled
    /\ Len(runs) < MaxRuns
    /\ ui' = showLoading(IF ~geolocation
                         THEN showError(ui, <<"Geolocation is not supported by your browser.">>)
                         ELSE ui,
                         <<"Getting your location...">>)
    /\ runs' = Append(Retired(runs), NewRun("LocatingUser"))
    /\ UNCHANGED geolocation

\* The click listener.  A disabled button dispatches no click event.
Click ==
    /\ ~ui.btnDisabled
    /\ Len(runs) < MaxRuns
    /\ IF ~geolocation
       THEN /\ ui' = showError(ui, <<"Geolocation is not supported by your browser.">>)
            /\ runs' = Append(Retired(runs), NewRun("Error"))
       ELSE /\ ui' = showLoading(ui, <<"Getting your location...">>)
            /\ runs' = Append(Retired(runs), NewRun("LocatingUser"))
    /\ UNCHANGED geolocation

\* The success callback of getCurrentPosition up to the await of line 173:
\* both helpers have issued their fetch.
PositionSuccess(i) ==
    /\ runs[i].pc = "LocatingUser"
    /\ ui' = showLoading(ui, <<"Fetching weather data...">>)
    /\ runs' = [runs EXCEPT ![i].pc = "FetchingWeatherAndCity",
                            ![i].weatherP = "pending",
                            ![i].cityP = "pending"]
    /\ UNCHANGED geolocation

\* The error callback without the test of line 196.
GeolocationErrorMessage_noDenied(code) ==
    <<"Could not get your location. Please allow location access.">>

\* The message the error callback of getCurrentPosition shows.
GeolocationErrorMessage(code) ==
    IF code = PERMISSION_DENIED
    THEN <<"Location access was denied. Please enable it in your browser settings.">>
    ELSE <<"Could not get your location. Please allow location access.">>

\* The error callback of getCurrentPosition.
PositionError(i, code) ==
    /\ runs[i].pc = "LocatingUser"
    /\ ui' = showError(ui, GeolocationErrorMessage(code))
    /\ runs' = [runs EXCEPT ![i].pc = "Error", ![i].geoCode = code]
    /\ UNCHANGED geolocation

\* The catch block without the fallback text.
CatchMessage_noFallback(message) == message

\* The catch block showing the fallback text for every exception.
CatchMessage_alwaysGeneric(message) == <<"An unknown error occurred.">>

\* The catch block: error.message || "An unknown error occurred."
CatchMessage(message) ==
    IF message # <<>> THEN message ELSE <<"An unknown error occurred.">>

\* Promise.allSettled in the place of Promise.all: waits for both and
\* never rejects.
PromiseAll_allSettled(p1, p2) ==
    IF p1 \in {"fulfilled", "rejected"} /\ p2 \in {"fulfilled", "rejected"}
    THEN "fulfilled"
    ELSE "pending"

\* Promise.race in the place of Promise.all: settles with the first of the
\* two promises to settle.
PromiseAll_race(p1, p2) ==
    IF p1 = "rejected" \/ p2 = "rejected" THEN "rejected"
    ELSE IF p1 = "fulfilled" \/ p2 = "fulfilled" THEN "fulfilled"
    ELSE "pending"

\* Promise.all of the two promises: rejected as soon as one is rejected,
\* fulfilled when both are fulfilled.
PromiseAll(p1, p2) ==
    IF p1 = "rejected" \/ p2 = "rejected" THEN "rejected"
    ELSE IF p1 = "fulfilled" /\ p2 = "fulfilled" THEN "fulfilled"
    ELSE "pending"

\* Line 179 with the message of line 172 left in place.
StartFragrance_noMessage(u) == showLoading(u, u.loadingMessage)

\* Lines 179-180, run when Promise.all fulfils.
StartFragrance(u) == showLoading(u, <<"Creating your fragrance profile...">>)

\* The continuation of the await of line 173 after run r1 (of index i) had
\* one of its two promises settle, rejected ones with the given message.
AfterSettle(i, r1, message) ==
    LET all == PromiseAll(r1.weatherP, r1.cityP)
    IN  IF all = "rejected"
        THEN /\ runs' = [runs EXCEPT ![i] = [r1 EXCEPT !.pc = "Error"]]
             /\ ui' = showError(ui, CatchMessage(message))
        ELSE IF all = "fulfilled"
        THEN /\ runs' = [runs EXCEPT ![i] = [r1 EXCEPT !.pc = "GeneratingFragrance",
                                                       !.aiP = "pending"]]
             /\ ui' = StartFragrance(ui)
        ELSE /\ runs' = [runs EXCEPT ![i] = r1]
             /\ ui' = ui

\* getWeatherData awaited on its own, with its own catch: its continuation
\* runs whenever it settles, whatever became of the run.
WeatherSettles_late(i, resp) ==
    LET res == getWeatherData(resp)
        p == IF res.ok THEN "fulfilled" ELSE "rejected"
    IN  /\ runs[i].weatherP = "pending"
        /\ IF runs[i].pc # "FetchingWeatherAndCity"
           THEN /\ runs' = [runs EXCEPT ![i].weatherP = p]
                /\ ui' = IF res.ok THEN ui ELSE showError(ui, CatchMessage(res.message))
           ELSE AfterSettle(i, [runs[i] EXCEPT !.weatherP = p,
                                               !.weather = res.value,
                                               !.weatherResp = resp],
                            res.message)
        /\ UNCHANGED geolocation

\* The promise of getWeatherData settles.  The continuation of Promise.all
\* runs only if the run is still awaiting it.
WeatherSettles(i, resp) ==
    LET res == getWeatherData(resp)
        p == IF res.ok THEN "fulfilled" ELSE "rejected"
    IN  /\ runs[i].weatherP = "pending"
        /\ IF runs[i].pc # "FetchingWeatherAndCity"
           THEN /\ runs' = [runs EXCEPT ![i].weatherP = p]
                /\ ui' = ui
           ELSE AfterSettle(i, [runs[i] EXCEPT !.weatherP = p,
                                               !.weather = res.value,
                                               !.weatherResp = resp],
                            res.message)
        /\ UNCHANGED geolocation

\* The promise of getCityName settles.
CitySettles(i, resp) ==
    LET res == getCityName(resp)
        p == IF res.ok THEN "fulfilled" ELSE "rejected"
    IN  /\ runs[i].cityP = "pending"
        /\ IF runs[i].pc # "FetchingWeatherAndCity"
           THEN /\ runs' = [runs EXCEPT ![i].cityP = p]
                /\ ui' = ui
           ELSE AfterSettle(i, [runs[i] EXCEPT !.cityP = p,
                                               !.city = res.value,
                                               !.cityResp = resp],
                            res.message)
        /\ UNCHANGED geolocation

\* The promise of getFragranceFromAI settles: lines 182-187, or the catch
\* block when it rejected or when updateUI throws.
FragranceSettles(i, resp) ==
    LET res == getFragranceFromAI(resp)
        r1 == [runs[i] EXCEPT !.aiP = IF res.ok THEN "fulfilled" ELSE "rejected",
                              !.fragrance = res.value,
                              !.aiResp = resp]
        out == updateUI(hideLoading(ui),
                        [weather |-> runs[i].weather, fragrance |-> res.value,
                         city |-> runs[i].city])
    IN  /\ runs[i].pc = "GeneratingFragrance"
        /\ runs[i].aiP = "pending"
        /\ IF ~res.ok
           THEN /\ runs' = [runs EXCEPT ![i] = [r1 EXCEPT !.pc = "Error"]]
                /\ ui' = showError(ui, CatchMessage(res.message))
           ELSE IF out.threw
           THEN /\ runs' = [runs EXCEPT ![i] = [r1 EXCEPT !.pc = "Error"]]
                /\ ui' = showError(out.ui, CatchMessage(out.message))
           ELSE /\ runs' = [runs EXCEPT ![i] = [r1 EXCEPT !.pc = "Done", !.shown = TRUE]]
                /\ ui' = out.ui
        /\ UNCHANGED geolocation

Next ==
    \/ Click
    \/ \E i \in DOMAIN runs : PositionSuccess(i)
    \/ \E i \in DOMAIN runs : \E code \in GeolocationErrorCodes : PositionError(i, code)
    \/ \E i \in DOMAIN runs : \E resp \in WeatherResponses : WeatherSettles(i, resp)
    \/ \E i \in DOMAIN runs : \E resp \in GeocodeResponses : CitySettles(i, resp)
    \/ \E i \in DOMAIN runs : \E resp \in FragranceResponses : FragranceSettles(i, resp)

Spec == Init /\ [][Next]_vars

\* The flow when the geolocation capability calls one of its two callbacks
\* and every issued request settles, each of them eventually.
FairSpec ==
    /\ Spec
    /\ \A i \in 1..MaxRuns :
          /\ WF_vars(i \in DOMAIN runs
                       /\ (PositionSuccess(i)
                            \/ \E code \in GeolocationErrorCodes : PositionError(i, code)))
          /\ WF_vars(i \in DOMAIN runs
                       /\ \E resp \in WeatherResponses : WeatherSettles(i, resp))
          /\ WF_vars(i \in DOMAIN runs
                       /\ \E resp \in GeocodeResponses : CitySettles(i, resp))
          /\ WF_vars(i \in DOMAIN runs
                       /\ \E resp \in FragranceResponses : FragranceSettles(i, resp))

\* The weather stage alone, over every weather code of a range around the
\* WMO codes: the flow is started and getWeatherData settles.
MaxCode == 100

AllCodeResponses ==
    {[NoWeatherResponse EXCEPT !.status = 200, !.hasCurrent = TRUE,
                               !.temperature = 123, !.weathercode = c] :
        c \in -1..MaxCode}

DescribeNext ==
    \/ Click
    \/ \E i \in DOMAIN runs : PositionSuccess(i)
    \/ \E i \in DOMAIN runs : \E resp \in AllCodeResponses : WeatherSettles(i, resp)

DescribeSpec == Init /\ [][DescribeNext]_vars

-----------------------------------------------------------------------------
(* The flow of the specification, read off the handler invocations.        *)

\* The state of the flow: that of the latest invocation of the handler.
FlowState == IF runs = <<>> THEN "Idle" ELSE runs[Len(runs)].pc

ActiveStates == {"LocatingUser", "FetchingWeatherAndCity", "GeneratingFragrance"}

Active(i) == runs[i].pc \in ActiveStates

LastRun == runs[Len(runs)]

IsEmptyText(t) == \A k \in DOMAIN t : t[k] = ""

-----------------------------------------------------------------------------
(* Claims.                                                                 *)

\* The reverse-geocoding call of a response failed: the fetch rejected, the
\* status is not 2xx, or the payload has no city and no town.
GeocodeFailed(resp) ==
    \/ resp.rejected
    \/ ~ResponseOk(resp.status)
    \/ ~resp.hasAddress
    \/ /\ ("city" \notin DOMAIN resp.address \/ resp.address["city"] = "")
       /\ ("town" \notin DOMAIN resp.address \/ resp.address["town"] = "")

\* The fragrance stage of run r has not failed: the request did not reject
\* and rendering its value did not throw.
FragranceNotFailed(r) ==
    /\ r.aiP # "rejected"
    /\ ~(r.aiP = "fulfilled" /\ r.fragrance.isNull)

\* C1: in a run whose weather fetch succeeded and whose fragrance stage did
\* not fail, a failed reverse-geocoding call (rejected fetch, non-2xx
\* status, payload without city/town) never brings the run to Error, and
\* when the run is Done the results are shown with city "your location".
C1_GeocodeFailureAbsorbed ==
    \A i \in DOMAIN runs :
        ( /\ runs[i].cityP \in {"fulfilled", "rejected"}
          /\ runs[i].cityResp # NoGeocodeResponse
          /\ GeocodeFailed(runs[i].cityResp)
          /\ runs[i].weatherP = "fulfilled"
          /\ FragranceNotFailed(runs[i]) )
        => /\ runs[i].pc # "Error"
           /\ runs[i].pc = "Done" => runs[i].city = "your location" /\ runs[i].shown

\* C2: a run whose weather fetch failed (getWeatherData rejected) is in
\* Error, has never made the results panel visible and has issued no
\* fragrance request, whatever the geocode call did and whenever.
C2_WeatherFailureFatal ==
    \A i \in DOMAIN runs :
        runs[i].weatherP = "rejected"
        => /\ runs[i].pc = "Error"
           /\ ~runs[i].shown
           /\ runs[i].aiP = "none"
           /\ i = Len(runs) => ui.resultsHidden

\* A run whose geocode call succeeded first and whose weather fetch then
\* failed.
C2_Witness ==
    \E i \in DOMAIN runs :
        /\ runs[i].weatherP = "rejected"
        /\ runs[i].cityP = "fulfilled"
        /\ runs[i].city = "London"

VisiblePanels ==
    {p \in {"loading", "error", "results"} :
        \/ p = "loading" /\ ~ui.loadingHidden
        \/ p = "error" /\ ~ui.errorHidden
        \/ p = "results" /\ ~ui.resultsHidden}

\* C3: at most one of the loading indicator, the error panel and the
\* results panel is visible, and while a run is active exactly the loading
\* indicator is.
C3_OnePanelVisible ==
    /\ Cardinality(VisiblePanels) <= 1
    /\ FlowState \in ActiveStates => VisiblePanels = {"loading"}

\* A successful run followed by a run that failed.
C3_Witness ==
    /\ Len(runs) = 2
    /\ runs[1].shown
    /\ runs[2].pc = "Error"
    /\ VisiblePanels = {"error"}

\* C4: while a run is active the button is disabled, and only the latest
\* run can be active: no two runs are active at once.
C4_SingleFlight ==
    \A i \in DOMAIN runs :
        Active(i) => ui.btnDisabled /\ i = Len(runs)

\* A second run is active while a request of the first one, which ended
\* in Error, is still outstanding.
C4_Witness ==
    /\ Len(runs) = 2
    /\ Active(2)
    /\ runs[1].pc = "Error"
    /\ runs[1].weatherP = "pending" \/ runs[1].cityP = "pending"

\* C5: in the Error state the button is enabled and the error panel is
\* visible with a non-empty message.
C5_ErrorLeavesRetry ==
    FlowState = "Error"
    => /\ ~ui.btnDisabled
       /\ ~ui.errorHidden
       /\ ~IsEmptyText(ui.errorMessage)

\* An error whose exception carried no message.
C5_Witness ==
    /\ FlowState = "Error"
    /\ LastRun.aiP = "rejected"
    /\ LastRun.aiResp.rejected
    /\ LastRun.aiResp.message = <<>>

FragranceFields == {"mood", "atmosphere", "scents", "reason"}

\* C6: whenever the results panel is visible, the run that made it visible
\* holds a city, a weather reading and a fragrance recommendation with all
\* of mood, atmosphere, scents and reason.
C6_NoPartialResult ==
    ~ui.resultsHidden
    => /\ runs # <<>>
       /\ LastRun.shown
       /\ LastRun.city # ""
       /\ LastRun.weather # NoWeather
       /\ ~LastRun.fragrance.isNull
       /\ \A f \in FragranceFields : f \in DOMAIN LastRun.fragrance.obj

\* The transitions the specification lists, a start from Done or Error
\* passing through Idle implicitly.
ListedTransitions ==
    {<<"Idle", "LocatingUser">>, <<"Done", "LocatingUser">>,
     <<"Error", "LocatingUser">>,
     <<"LocatingUser", "FetchingWeatherAndCity">>,
     <<"FetchingWeatherAndCity", "GeneratingFragrance">>,
     <<"GeneratingFragrance", "Done">>,
     <<"LocatingUser", "Error">>, <<"FetchingWeatherAndCity", "Error">>,
     <<"GeneratingFragrance", "Error">>}

\* C7 as stated: every change of the flow state is a listed transition;
\* Error is never entered directly from Idle.
C7_ListedTransitionsOnly ==
    [][FlowState' # FlowState => <<FlowState, FlowState'>> \in ListedTransitions]_vars

\* C7 as amended: every change of the flow state is a listed transition or
\* the direct step from Idle to Error, which is taken exactly when
\* geolocation is unsupported; an unsupported geolocation never puts the
\* flow in LocatingUser.
C7_TransitionsAmended ==
    [][ /\ FlowState' # FlowState
           => <<FlowState, FlowState'>> \in ListedTransitions \cup {<<"Idle", "Error">>}
        /\ <<FlowState, FlowState'>> = <<"Idle", "Error">> => ~geolocation
        /\ ~geolocation => FlowState' \in {"Idle", "Error"} ]_vars

\* Unsupported geolocation was reported: the flow is in Error and the run
\* never called getCurrentPosition.
C7_Witness ==
    /\ ~geolocation
    /\ FlowState = "Error"
    /\ ui.errorMessage = <<"Geolocation is not supported by your browser.">>

\* C8: in each active state the loading indicator shows the message of
\* that state, the three messages differ, and the requests of a state are
\* outstanding only under the message of that state.
C8_ProgressMessages ==
    /\ FlowState = "LocatingUser"
       => ~ui.loadingHidden /\ ui.loadingMessage = <<"Getting your location...">>
    /\ FlowState = "FetchingWeatherAndCity"
       => ~ui.loadingHidden /\ ui.loadingMessage = <<"Fetching weather data...">>
    /\ FlowState = "GeneratingFragrance"
       => ~ui.loadingHidden
          /\ ui.loadingMessage = <<"Creating your fragrance profile...">>
    /\ \A i \in DOMAIN runs :
          /\ runs[i].aiP = "pending"
             => ui.loadingMessage = <<"Creating your fragrance profile...">>
          /\ Active(i) /\ (runs[i].weatherP = "pending" \/ runs[i].cityP = "pending")
             => ui.loadingMessage = <<"Fetching weather data...">>

\* The fragrance request is outstanding.
C8_Witness ==
    /\ FlowState = "GeneratingFragrance"
    /\ LastRun.aiP = "pending"

\* C9: when the fragrance service answered with a successful status and an
\* absent or empty candidates list, the run is in Error, the error panel
\* shows the invalid-response-structure message and the results panel is
\* hidden.
C9_NoCandidates ==
    ( /\ runs # <<>>
      /\ LastRun.aiP \in {"fulfilled", "rejected"}
      /\ ~LastRun.aiResp.rejected
      /\ ResponseOk(LastRun.aiResp.status)
      /\ LastRun.aiResp.candidates \in {"absent", "empty"} )
    => /\ LastRun.pc = "Error"
       /\ ~LastRun.shown
       /\ ~ui.errorHidden
       /\ ui.errorMessage = <<"Invalid response structure from AI API.">>
       /\ ui.resultsHidden

\* The service answered 200 with an empty candidates list.
C9_Witness ==
    /\ runs # <<>>
    /\ LastRun.aiP = "rejected"
    /\ LastRun.aiResp.status = 200
    /\ LastRun.aiResp.candidates = "empty"

\* C10: when the fragrance service answered with a non-successful status,
\* the run is in Error and the message in the error panel contains the
\* status code.
C10_StatusInMessage ==
    ( /\ runs # <<>>
      /\ LastRun.aiP \in {"fulfilled", "rejected"}
      /\ ~LastRun.aiResp.rejected
      /\ ~ResponseOk(LastRun.aiResp.status) )
    => /\ LastRun.pc = "Error"
       /\ ~ui.errorHidden
       /\ \E k \in DOMAIN ui.errorMessage :
             ui.errorMessage[k] = ToString(LastRun.aiResp.status)

\* The service answered 429.
C10_Witness ==
    /\ runs # <<>>
    /\ LastRun.aiP = "rejected"
    /\ ~LastRun.aiResp.rejected
    /\ LastRun.aiResp.status = 429

\* C11: after a geolocation failure the run is in Error and has issued no
\* weather, geocode or fragrance request, and the error panel shows the
\* permission-denied message exactly when the code is PERMISSION_DENIED,
\* another message for every other code.
C11_DeniedMessageDistinct ==
    (runs # <<>> /\ LastRun.geoCode # 0)
    => /\ LastRun.pc = "Error"
       /\ LastRun.weatherP = "none"
       /\ LastRun.cityP = "none"
       /\ LastRun.aiP = "none"
       /\ ~ui.errorHidden
       /\ ~IsEmptyText(ui.errorMessage)
       /\ LastRun.geoCode = 1
          <=> ui.errorMessage =
                <<"Location access was denied. Please enable it in your browser settings.">>

\* Geolocation failed with the permission-denied code.
C11_Witness ==
    /\ runs # <<>>
    /\ LastRun.geoCode = 1
    /\ LastRun.pc = "Error"

\* The table of section 4.1: the 28 WMO codes and their descriptions.
ListedDescriptions ==
    {<<0, "Clear sky">>, <<1, "Mainly clear">>, <<2, "Partly cloudy">>,
     <<3, "Overcast">>, <<45, "Fog">>, <<48, "Depositing rime fog">>,
     <<51, "Light drizzle">>, <<53, "Moderate drizzle">>, <<55, "Dense drizzle">>,
     <<56, "Light freezing drizzle">>, <<57, "Dense freezing drizzle">>,
     <<61, "Slight rain">>, <<63, "Moderate rain">>, <<65, "Heavy rain">>,
     <<66, "Light freezing rain">>, <<67, "Heavy freezing rain">>,
     <<71, "Slight snow fall">>, <<73, "Moderate snow fall">>,
     <<75, "Heavy snow fall">>, <<77, "Snow grains">>,
     <<80, "Slight rain showers">>, <<81, "Moderate rain showers">>,
     <<82, "Violent rain showers">>, <<85, "Slight snow showers">>,
     <<86, "Heavy snow showers">>, <<95, "Thunderstorm">>,
     <<96, "Thunderstorm with slight hail">>,
     <<99, "Thunderstorm with heavy hail">>}

ListedCodes == {p[1] : p \in ListedDescriptions}

\* C12: the description getWeatherData obtained for a weather code is the
\* listed string for each of the 28 listed codes, code 0 included, and
\* "Unknown weather" for every other integer code.
C12_DescriptionTable ==
    /\ Cardinality(ListedCodes) = 28
    /\ \A i \in DOMAIN runs :
        (runs[i].weatherP = "fulfilled" /\ runs[i].weatherResp.hasCurrent)
        => /\ <<runs[i].weatherResp.weathercode, runs[i].weather.description>>
                 \in ListedDescriptions
              \/ /\ runs[i].weatherResp.weathercode \notin ListedCodes
                 /\ runs[i].weather.description = "Unknown weather"

\* The description of code 0 was obtained.
C12_Witness ==
    \E i \in DOMAIN runs :
        /\ runs[i].weatherP = "fulfilled"
        /\ runs[i].weatherResp.hasCurrent
        /\ runs[i].weatherResp.weathercode = 0
        /\ runs[i].weather.description = "Clear sky"

\* The description section 4.1 gives for a code.
ListedDescription(code) ==
    IF code \in ListedCodes
    THEN (CHOOSE p \in ListedDescriptions : p[1] = code)[2]
    ELSE "Unknown weather"

\* C13: when a run is Done with a recommendation that has scents, mood and
\* reason, the location reads "Forecast for " + city, the weather reads the
\* description of the code, ", ", an integer nearest to the raw temperature
\* and "°C", the recommendation reads scents and the reason line reads
\* "Mood: " + mood + ". " + reason; code 61 at 12.3 degrees in London with
\* the scenario's payload renders the four texts of section 8.
C13_RenderedFields ==
    (runs # <<>> /\ LastRun.pc = "Done")
    => LET r == LastRun
           t == r.weatherResp.temperature
           c == r.weatherResp.weathercode
           o == r.fragrance.obj
       IN  /\ ~ui.resultsHidden
           /\ ui.locationDisplay = <<"Forecast for ", r.city>>
           /\ \E n \in -100..100 :
                 /\ 10 * n - t \in -5..5
                 /\ ui.weatherDisplay =
                       <<ListedDescription(c), ", ", ToString(n), "°C">>
           /\ {"scents", "mood", "reason"} \subseteq DOMAIN o
              => /\ ui.fragranceRecommendation = <<o["scents"]>>
                 /\ ui.fragranceReason = <<"Mood: ", o["mood"], ". ", o["reason"]>>
           /\ (c = 61 /\ t = 123 /\ r.cityResp.hasAddress
                 /\ r.cityResp.address = [city |-> "London"]
                 /\ r.aiResp.text = TextFull)
              => /\ ui.locationDisplay = <<"Forecast for ", "London">>
                 /\ ui.weatherDisplay = <<"Slight rain", ", ", "12", "°C">>
                 /\ ui.fragranceRecommendation = <<"Amber & Vanilla">>
                 /\ ui.fragranceReason =
                       <<"Mood: ", "Cozy", ". ", "Warm scents suit rain.">>

\* The end-to-end scenario of section 8 has been rendered.
C13_Witness ==
    /\ runs # <<>>
    /\ LastRun.pc = "Done"
    /\ LastRun.weatherResp.weathercode = 61
    /\ LastRun.weatherResp.temperature = 123
    /\ LastRun.city = "London"
    /\ LastRun.aiResp.text = TextFull

\* C14: when the fragrance service answered with a successful status and a
\* first candidate without the content/parts/text structure, the run is in
\* Error with the invalid-response-structure message.
C14_MalformedCandidateShapeError ==
    ( /\ runs # <<>>
      /\ LastRun.aiP \in {"fulfilled", "rejected"}
      /\ ~LastRun.aiResp.rejected
      /\ ResponseOk(LastRun.aiResp.status)
      /\ LastRun.aiResp.candidates = "malformed" )
    => /\ LastRun.pc = "Error"
       /\ ui.errorMessage = <<"Invalid response structure from AI API.">>

Settled == {"fulfilled", "rejected"}

\* C15: the weather and the geocode request of a run are issued together
\* (never one without the other), and a fragrance request exists only in a
\* run whose weather and geocode promises have both fulfilled.
C15_BothBeforeFragrance ==
    \A i \in DOMAIN runs :
        /\ runs[i].weatherP = "none" <=> runs[i].cityP = "none"
        /\ runs[i].aiP # "none"
           => runs[i].weatherP = "fulfilled" /\ runs[i].cityP = "fulfilled"

\* The fragrance request was issued after both calls had completed, the
\* geocode call with its fallback.
C15_Witness ==
    \E i \in DOMAIN runs :
        /\ runs[i].aiP = "pending"
        /\ runs[i].weatherP = "fulfilled"
        /\ runs[i].cityP = "fulfilled"
        /\ runs[i].city = "your location"

\* A request of run i is issued in this step.
Issued(i, f) ==
    /\ runs'[i][f] = "pending"
    /\ i \in DOMAIN runs => runs[i][f] # "pending"

\* C17: a promise of a run that has been issued is never issued again,
\* getCurrentPosition is called only when the run is created, and once a
\* run has a rejected promise or is in Error or Done it issues no request.
C17_NoRetry ==
    [][ \A i \in DOMAIN runs' :
          /\ i \notin DOMAIN runs
             => runs'[i].weatherP = "none" /\ runs'[i].cityP = "none"
                /\ runs'[i].aiP = "none"
          /\ i \in DOMAIN runs
             => /\ runs'[i].pc = "LocatingUser" => runs[i].pc = "LocatingUser"
                /\ \A f \in {"weatherP", "cityP", "aiP"} :
                      /\ runs[i][f] \in Settled => runs'[i][f] = runs[i][f]
                      /\ runs[i][f] = "pending" => runs'[i][f] # "none"
                      /\ ( \/ runs[i].pc \in {"Error", "Done"}
                           \/ \E g \in {"weatherP", "cityP", "aiP"} :
                                 runs[i][g] = "rejected" )
                         => ~Issued(i, f) ]_vars

\* A run failed at its last stage, every service having been called.
C17_Witness ==
    \E i \in DOMAIN runs :
        /\ runs[i].pc = "Error"
        /\ runs[i].weatherP = "fulfilled"
        /\ runs[i].cityP = "fulfilled"
        /\ runs[i].aiP = "rejected"

\* C19: the button is disabled exactly when the loading indicator is
\* visible.
C19_DisabledIffLoading ==
    ui.btnDisabled <=> ~ui.loadingHidden

\* The button is disabled again in a second run, after hideLoading had
\* enabled it.
C19_Witness ==
    /\ Len(runs) = 2
    /\ ui.btnDisabled
    /\ ~ui.loadingHidden

\* C20: the completion of a request of a run that is in Error (the other
\* of its two concurrent requests having failed) leaves the UI unchanged.
C20_LateCompletionSilent ==
    [][ \A i \in DOMAIN runs :
          ( /\ runs[i].pc = "Error"
            /\ \/ runs[i].weatherP = "pending" /\ runs'[i].weatherP # "pending"
               \/ runs[i].cityP = "pending" /\ runs'[i].cityP # "pending" )
          => ui' = ui ]_vars

\* The weather request of a run that failed on its geocode call has
\* completed with a failure while a second run is loading.
C20_Witness ==
    /\ Len(runs) = 2
    /\ runs[1].pc = "Error"
    /\ runs[1].cityP = "rejected"
    /\ runs[1].weatherP = "rejected"
    /\ Active(2)

\* C16: when the callbacks and responses arrive, an active flow eventually
\* is Done or in Error with the loading indicator hidden and the button
\* enabled.
C16_RunsTerminate ==
    [](FlowState \in ActiveStates
       => <>(/\ FlowState \in {"Done", "Error"}
             /\ ui.loadingHidden
             /\ ~ui.btnDisabled))

\* A second run has ended, in Done.
C16_Witness ==
    /\ Len(runs) = 2
    /\ FlowState = "Done"
    /\ ui.loadingHidden
    /\ ~ui.btnDisabled

\* Run r raised an exception inside the try block: a helper's promise
\* rejected while the run awaited it, or updateUI threw.
Raised(r) ==
    \/ r.weatherP = "rejected" /\ r.weatherResp # NoWeatherResponse
    \/ r.cityP = "rejected" /\ r.cityResp # NoGeocodeResponse
    \/ r.aiP = "rejected"
    \/ r.aiP = "fulfilled" /\ r.fragrance.isNull

\* The message of that exception.
RaisedMessage(r) ==
    IF r.weatherP = "rejected" /\ r.weatherResp # NoWeatherResponse
    THEN getWeatherData(r.weatherResp).message
    ELSE IF r.cityP = "rejected" /\ r.cityResp # NoGeocodeResponse
    THEN getCityName(r.cityResp).message
    ELSE IF r.aiP = "rejected"
    THEN getFragranceFromAI(r.aiResp).message
    ELSE <<"Cannot read properties of null (reading 'scents')">>

\* C18: a run that raised an exception after the coordinates were obtained
\* is in Error, the results panel is hidden, and the error panel shows the
\* exception's message, or the generic text when that message is empty.
C18_CaughtAtBoundary ==
    (runs # <<>> /\ Raised(LastRun))
    => /\ LastRun.pc = "Error"
       /\ ~LastRun.shown
       /\ ui.resultsHidden
       /\ ~ui.errorHidden
       /\ ui.errorMessage = IF IsEmptyText(RaisedMessage(LastRun))
                            THEN <<"An unknown error occurred.">>
                            ELSE RaisedMessage(LastRun)

\* updateUI threw while rendering a null recommendation.
C18_Witness ==
    /\ runs # <<>>
    /\ LastRun.pc = "Error"
    /\ LastRun.aiP = "fulfilled"
    /\ LastRun.aiResp.text = TextNull
    /\ LastRun.fragrance.isNull

====
